---- MODULE Spec2Model ----
(***************************************************************************)
(* OpenSnake firmware (Firmware/OpenSnake/OpenSnake.ino): the EEPROM track *)
(* store, the button sampler with its two long-press counters, playback,   *)
(* recording, track selection and factory reset.                           *)
(*                                                                         *)
(* A button set b is the set of buttons whose (active-low) line reads      *)
(* pressed at one call of check_buttons.  Every call of check_buttons is   *)
(* one step of the model, together with the code that runs from it to the  *)
(* next call; the start and the end of setup() are steps of their own.     *)
(***************************************************************************)
EXTENDS Integers, Sequences, FiniteSets

\* ---------------------------------------------------------------- constants
YES == 1
NO == 2
SNAKE == 3
END == 99

RECORD_CMD == 1
PLAY_CMD == 2
TRACK_CMD == 3
YES_CMD == 4
NO_CMD == 5
SNAKE_CMD == 6

\* EEPROM.length() of the ATmega328: addresses 0..1023, 1023 is the sentinel
EEPROM_length == 1024
\* a byte holds 0..255
ByteMod == 256
\* the hold counters are ints, 16 bits wide on the ATmega328
IntMod == 65536
\* "if (recordButtonCounter > 200)", "if (incrementTrackButtonCounter > 200)"
LongPress == 200
\* delay(10) + delay(100) at the top of every iteration of the recording loop
RecTickMs == 110

Buttons == {"RECORD", "PLAY", "TRACK", "YES", "NO", "SNAKE"}

example_track_1 ==
  << 56, YES, 51, YES, 2, YES, 72, NO, 67, NO, 43, NO, 55, YES, 1, YES,
     15, SNAKE, 0, END >>

\* ------------------------------------------------------------------- bounds
\* largest value a held button drives its hold counter to
MaxHold == 202
\* the same in a wait for release, and where every combination of the six
\* lines is sampled
MaxPolls == 4
\* presses of a recording session that are free in kind and in pause
MaxEvents == 1
\* presses of a recording session in all
MaxLong == 257
\* pairs set at the start of a region of a drawn store
MaxPairs == 2
\* increment_track calls in a row
MaxSelects == 5
\* factory_reset calls in a row
MaxResets == 2
\* presses of Play or Track between two events of a recording session
MaxIgnored == 1
\* a long pause of the performer, in iterations of the recording loop
IdleLong == 240

\* ---------------------------------------------------------------- variables
VARIABLES
  EEPROM,                       \* the byte store, 0..1023 -> 0..255
  userInput,                    \* global: command of the last check_buttons
  recordButtonCounter,          \* global hold counter of RECORD
  incrementTrackButtonCounter,  \* global hold counter of TRACK SELECT
  buttons,                      \* the lines the last check_buttons sampled
  pc,                           \* where the program is between two steps
  ret,                          \* the caller factory_reset returns to
  time_pressed,                 \* setup(): samples with RECORD held
  track,                        \* record_track(): local track
  recording_length,             \* record_track(): local byte
  recording_status,             \* record_track(): local boolean
  elapsed,                      \* millis() - last_press_time, in ms
  samples,                      \* log of setup(): lines at its samples
  resets,                       \* factory_reset calls in a row
  fresh_boot,                   \* log of setup(): line 232 read 255
  last_op,                      \* the routine the last step ran, or "none"
  played,                       \* log of the play_track of the last step
  sel_from,                     \* track before the increment_track calls
  sel_count,                    \* increment_track calls of the last steps
  pressed,                      \* log of the session: events played in
  recorded,                     \* pressed is the current track's recording
  since_event                   \* log of the session: ms of the recording
                                \* loop since an event was recorded

globals == << userInput, recordButtonCounter, incrementTrackButtonCounter,
              buttons >>
setupv == << ret, time_pressed, samples, resets, fresh_boot >>
recv == << track, recording_length, recording_status, elapsed >>
oplog == << last_op, played, sel_from, sel_count >>
seslog == << pressed, recorded, since_event >>

vars == << EEPROM, pc, globals, setupv, recv, oplog, seslog >>

\* ------------------------------------------------------------ check_buttons
\* UserInputOf with RECORD tested before PLAY
UserInputRecordFirst(b) ==
  IF "RECORD" \in b THEN RECORD_CMD
  ELSE IF "PLAY" \in b THEN PLAY_CMD
  ELSE IF "TRACK" \in b THEN TRACK_CMD
  ELSE IF "YES" \in b THEN YES_CMD
  ELSE IF "NO" \in b THEN NO_CMD
  ELSE IF "SNAKE" \in b THEN SNAKE_CMD
  ELSE 0

\* the if / else-if chain of lines 514-527
UserInputOf(b) ==
  IF "PLAY" \in b THEN PLAY_CMD
  ELSE IF "RECORD" \in b THEN RECORD_CMD
  ELSE IF "TRACK" \in b THEN TRACK_CMD
  ELSE IF "YES" \in b THEN YES_CMD
  ELSE IF "NO" \in b THEN NO_CMD
  ELSE IF "SNAKE" \in b THEN SNAKE_CMD
  ELSE 0

\* the value an int of the ATmega328 build (16 bits) keeps of n
ToInt(n) == ((n + IntMod \div 2) % IntMod) - IntMod \div 2

\* RecordCounterAfter without the reset of line 511
RecordCounterNoReset(b, c) ==
  IF UserInputOf(b) = RECORD_CMD THEN ToInt(c + 1) ELSE c

\* recordButtonCounter after check_buttons: line 511, then line 517
RecordCounterAfter(b, c) ==
  LET c1 == IF "RECORD" \notin b THEN 0 ELSE c
  IN IF UserInputOf(b) = RECORD_CMD THEN ToInt(c1 + 1) ELSE c1

\* incrementTrackButtonCounter after check_buttons: line 512, then line 522
TrackCounterAfter(b, c) ==
  LET c1 == IF "TRACK" \notin b THEN 0 ELSE c
  IN IF UserInputOf(b) = TRACK_CMD THEN ToInt(c1 + 1) ELSE c1

\* the effect of check_buttons() on the globals; it returns userInput' # 0
check_buttons(b) ==
  /\ userInput' = UserInputOf(b)
  /\ recordButtonCounter' = RecordCounterAfter(b, recordButtonCounter)
  /\ incrementTrackButtonCounter' =
       TrackCounterAfter(b, incrementTrackButtonCounter)
  /\ buttons' = b

\* ------------------------------------------------------------- track codec
\* get_start_mem_location has no return for a track outside 1..6: the value
\* the caller then gets is whatever the build leaves in the result register
UndefinedStarts == {0, 924}

\* StartMemLocations with the region of track 1 at address 0
StartMemLocationsFromZero(t) == {(t - 1) * 100}

StartMemLocations(t) ==
  IF t = 1 THEN {1}
  ELSE IF t = 2 THEN {100}
  ELSE IF t = 3 THEN {200}
  ELSE IF t = 4 THEN {300}
  ELSE IF t = 5 THEN {400}
  ELSE IF t = 6 THEN {500}
  ELSE UndefinedStarts

\* record_event: the delay byte, then the type byte
record_event(e, start, event_delay, event_type, len) ==
  LET record_to_location == start + len * 2
  IN [e EXCEPT ![record_to_location % EEPROM_length] = event_delay,
               ![(record_to_location + 1) % EEPROM_length] = event_type]

\* EventDelay without the clamp of line 564: byte() keeps the low 8 bits
EventDelayNoClamp(ms) == (ms \div 100) % ByteMod

\* lines 562-565: elapsed ms to the delay byte
EventDelay(ms) ==
  LET event_delay_long == ms \div 100
  IN IF event_delay_long > 255 THEN 255 ELSE event_delay_long

\* ---------------------------------------------------------------- playback
\* the switch of lines 327-346: the actuator routine a type byte runs
Actuator(event_type) ==
  IF event_type = YES THEN "yes"
  ELSE IF event_type = NO THEN "no"
  ELSE IF event_type = SNAKE THEN "snake"
  ELSE "none"

\* LastPos admitting one pair more
LastPosOnePairMore(start) == start + 100

\* the last pos the for loop of line 313 admits
LastPos(start) == start + 99

\* PlayFrom without the break of line 348
RECURSIVE PlayFromNoBreak(_, _, _)
PlayFromNoBreak(e, start, pos) ==
  IF pos > LastPos(start) THEN << >>
  ELSE LET event_delay == e[pos % EEPROM_length]
           event_type == e[(pos + 1) % EEPROM_length]
           entry == [pos |-> pos, wait |-> event_delay * 100,
                     type |-> event_type, act |-> Actuator(event_type)]
       IN << entry >> \o PlayFromNoBreak(e, start, pos + 2)

\* PlayFrom leaving the loop at a type byte the switch does not know
RECURSIVE PlayFromStopAtInvalid(_, _, _)
PlayFromStopAtInvalid(e, start, pos) ==
  IF pos > LastPos(start) THEN << >>
  ELSE LET event_delay == e[pos % EEPROM_length]
           event_type == e[(pos + 1) % EEPROM_length]
           entry == [pos |-> pos, wait |-> event_delay * 100,
                     type |-> event_type, act |-> Actuator(event_type)]
       IN IF event_type \notin {YES, NO, SNAKE} THEN << entry >>
          ELSE << entry >> \o PlayFromStopAtInvalid(e, start, pos + 2)

\* the for loop of play_track from pos on: one entry per pair it reads
RECURSIVE PlayFrom(_, _, _)
PlayFrom(e, start, pos) ==
  IF pos > LastPos(start) THEN << >>
  ELSE LET event_delay == e[pos % EEPROM_length]
           event_type == e[(pos + 1) % EEPROM_length]
           entry == [pos |-> pos, wait |-> event_delay * 100,
                     type |-> event_type, act |-> Actuator(event_type)]
       IN IF event_type = END THEN << entry >>
          ELSE << entry >> \o PlayFrom(e, start, pos + 2)

\* play_track(): reads the current track and plays its region
play_track ==
  /\ \E start \in StartMemLocations(EEPROM[0]) :
       played' = PlayFrom(EEPROM, start, start)
  /\ last_op' = "play"
  /\ sel_from' = 0
  /\ sel_count' = 0
  /\ UNCHANGED << EEPROM, seslog >>

\* ----------------------------------------------------------- factory reset
\* the for loop of lines 435-439 from index i on
RECURSIVE WriteExample(_, _)
WriteExample(e, i) ==
  IF i >= Len(example_track_1) THEN e
  ELSE LET e1 == [e EXCEPT ![1 + i] = example_track_1[i + 1]]
       IN IF example_track_1[i + 1] = END THEN e1
          ELSE WriteExample(e1, i + 1)

\* FactoryResetStore writing the example to the region of the current track
\* before it selects track 1
FactoryResetCurrentRegion(e) ==
  LET start == CHOOSE a \in StartMemLocations(e[0]) : TRUE
      w == WriteExample(e, 0)
  IN [a \in 0 .. EEPROM_length - 1 |->
        IF a = 0 THEN 1
        ELSE IF a \in start .. start + Len(example_track_1) - 1
             THEN w[a - start + 1]
             ELSE e[a]]

\* the EEPROM writes of factory_reset(): lines 430-439
FactoryResetStore(e) == WriteExample([e EXCEPT ![0] = 1], 0)

\* MarkInitialised without its write
MarkInitialisedNoWrite(e) == e

\* line 235: the sentinel is set to something other than 255
MarkInitialised(e) == [e EXCEPT ![1023] = 0]

\* factory_reset() up to its wait for release (line 454)
factory_reset ==
  /\ EEPROM' = FactoryResetStore(EEPROM)
  /\ last_op' = "reset"
  /\ played' = << >>
  /\ sel_from' = 0
  /\ sel_count' = 0
  /\ pressed' = << >>
  /\ recorded' = FALSE
  /\ since_event' = 0

\* --------------------------------------------------------- track selection
\* NextTrack wrapping one track early
NextTrackWrapAtFive(t) ==
  LET t1 == (t + 1) % ByteMod
  IN IF t1 = 5 THEN 1 ELSE t1

\* NextTrack without the wrap of line 481
NextTrackNoWrap(t) == (t + 1) % ByteMod

\* lines 480-482: the byte read, incremented, wrapped
NextTrack(t) ==
  LET t1 == (t + 1) % ByteMod
  IN IF t1 = 6 THEN 1 ELSE t1

\* increment_track(), with set_track()
increment_track ==
  /\ EEPROM' = [EEPROM EXCEPT ![0] = NextTrack(EEPROM[0])]
  /\ last_op' = "select"
  /\ played' = << >>
  /\ sel_from' = IF sel_count = 0 THEN EEPROM[0] ELSE sel_from
  /\ sel_count' = sel_count + 1
  /\ pressed' = << >>
  /\ recorded' = FALSE
  /\ since_event' = 0

\* a step that runs none of play_track, factory_reset, increment_track
no_op ==
  /\ last_op' = "none"
  /\ played' = << >>
  /\ sel_from' = 0
  /\ sel_count' = 0

\* --------------------------------------------------------------------- Init
FreshStore == [a \in 0 .. EEPROM_length - 1 |-> 255]

\* the RAM and the logs when setup() starts
PowerOn ==
  /\ userInput = 0
  /\ recordButtonCounter = 0
  /\ incrementTrackButtonCounter = 0
  /\ buttons = {}
  /\ pc = "setup"
  /\ ret = "none"
  /\ time_pressed = 0
  /\ track = 0
  /\ recording_length = 0
  /\ recording_status = FALSE
  /\ elapsed = 0
  /\ samples = << >>
  /\ resets = 0
  /\ fresh_boot = FALSE
  /\ last_op = "none"
  /\ played = << >>
  /\ sel_from = 0
  /\ sel_count = 0
  /\ pressed = << >>
  /\ recorded = FALSE
  /\ since_event = 0

\* a fresh chip at its first power-on
Init ==
  /\ EEPROM = FreshStore
  /\ PowerOn

\* ------------------------------------------------------------------ setup()
\* lines 231-238: the fresh-chip check
SetupFreshCheck ==
  /\ pc = "setup"
  /\ IF EEPROM[1023] = 255
     THEN /\ factory_reset
          /\ resets' = resets + 1
          /\ ret' = "fresh"
          /\ pc' = "fr_release"
          /\ fresh_boot' = TRUE
     ELSE /\ pc' = "manual"
          /\ no_op
          /\ UNCHANGED << EEPROM, resets, ret, fresh_boot, seslog >>
  /\ UNCHANGED << globals, time_pressed, samples, recv >>

\* line 454: one poll of factory_reset's wait for release, and the return
\* to line 235 or to line 251
FactoryResetPoll(b) ==
  /\ pc = "fr_release"
  /\ check_buttons(b)
  /\ IF UserInputOf(b) # 0
     THEN UNCHANGED << EEPROM, pc, ret >>
     ELSE /\ ret' = "none"
          /\ IF ret = "fresh"
             THEN /\ EEPROM' = MarkInitialised(EEPROM)
                  /\ pc' = "manual"
             ELSE /\ pc' = "setup_end"
                  /\ UNCHANGED EEPROM
  /\ no_op
  /\ UNCHANGED << time_pressed, samples, resets, fresh_boot, recv, seslog >>

\* lines 242-253: one sample of the manual-reset loop
ManualSample(b) ==
  /\ pc = "manual"
  /\ check_buttons(b)
  /\ samples' = Append(samples, b)
  /\ IF UserInputOf(b) = RECORD_CMD
     THEN /\ time_pressed' = time_pressed + 1
          /\ IF time_pressed + 1 = 3
             THEN /\ factory_reset
                  /\ resets' = resets + 1
                  /\ ret' = "manual"
                  /\ pc' = "fr_release"
             ELSE /\ no_op
                  /\ UNCHANGED << EEPROM, pc, ret, resets, seslog >>
     ELSE /\ pc' = "setup_end"
          /\ no_op
          /\ UNCHANGED << EEPROM, ret, resets, time_pressed, seslog >>
  /\ UNCHANGED << fresh_boot, recv >>

\* lines 255-258: setup() reads and blinks the current track and returns
SetupEnd ==
  /\ pc = "setup_end"
  /\ pc' = "loop"
  /\ time_pressed' = 0
  /\ samples' = << >>
  /\ resets' = 0
  /\ fresh_boot' = FALSE
  /\ no_op
  /\ UNCHANGED << EEPROM, globals, ret, recv, seslog >>

\* ------------------------------------------------------------------- loop()
\* one pass of loop(): the poll and the dispatch of lines 271-288
LoopPoll(b) ==
  /\ pc = "loop"
  /\ check_buttons(b)
  /\ LET cmd == UserInputOf(b)
         rec == cmd = RECORD_CMD
                  /\ RecordCounterAfter(b, recordButtonCounter) > LongPress
         sel == cmd = TRACK_CMD
                  /\ TrackCounterAfter(b, incrementTrackButtonCounter)
                       > LongPress
     IN IF rec
        THEN /\ pc' = "rec_release"
             /\ pressed' = << >>
             /\ recorded' = FALSE
             /\ since_event' = 0
             /\ no_op
             /\ UNCHANGED EEPROM
        ELSE IF cmd = PLAY_CMD
        THEN /\ play_track
             /\ UNCHANGED pc
        ELSE IF sel
        THEN /\ increment_track
             /\ UNCHANGED pc
        ELSE /\ no_op
             /\ UNCHANGED << EEPROM, pc, seslog >>
  /\ UNCHANGED << setupv, recv >>

\* ----------------------------------------------------------- record_track()
\* line 542: one poll of the wait for release, then lines 544-551
RecordReleasePoll(b) ==
  /\ pc = "rec_release"
  /\ check_buttons(b)
  /\ IF UserInputOf(b) # 0
     THEN UNCHANGED << pc, recv >>
     ELSE /\ pc' = "rec_loop"
          /\ track' = EEPROM[0]
          /\ elapsed' = 0
          /\ recording_status' = TRUE
          /\ recording_length' = 0
  /\ no_op
  /\ UNCHANGED << EEPROM, setupv, seslog >>

\* the event type a command records, 0 for a command that records nothing
EventTypeOf(cmd) ==
  IF cmd = YES_CMD THEN YES
  ELSE IF cmd = NO_CMD THEN NO
  ELSE IF cmd = SNAKE_CMD THEN SNAKE
  ELSE IF cmd = RECORD_CMD THEN END
  ELSE 0

\* lines 553-600: n iterations of the recording loop; check_buttons finds
\* every line released in the first n-1 of them and samples b in the last
RecordIteration(b, n) ==
  /\ pc = "rec_loop"
  /\ n >= 1
  /\ userInput' = UserInputOf(b)
  /\ recordButtonCounter' =
       RecordCounterAfter(b, IF n > 1 THEN 0 ELSE recordButtonCounter)
  /\ incrementTrackButtonCounter' =
       TrackCounterAfter(b, IF n > 1 THEN 0 ELSE incrementTrackButtonCounter)
  /\ buttons' = b
  /\ LET ms == elapsed + RecTickMs * n
         event_delay == EventDelay(ms)
         cmd == UserInputOf(b)
     IN /\ elapsed' = ms
        /\ since_event' = IF EventTypeOf(cmd) # 0 THEN 0
                          ELSE since_event + RecTickMs * n
        /\ IF cmd = 0
           THEN UNCHANGED << EEPROM, pc, recording_length, recording_status,
                             pressed, recorded >>
           ELSE /\ pc' = "rec_debounce"
                /\ IF EventTypeOf(cmd) # 0
                   THEN \E start \in StartMemLocations(track) :
                          EEPROM' = record_event(EEPROM, start, event_delay,
                                                 EventTypeOf(cmd),
                                                 recording_length)
                   ELSE UNCHANGED EEPROM
                /\ IF cmd \in {YES_CMD, NO_CMD, SNAKE_CMD}
                   THEN /\ recording_length' =
                             (recording_length + 1) % ByteMod
                        /\ pressed' = Append(pressed,
                             [wait |-> event_delay * 100,
                              act |-> Actuator(EventTypeOf(cmd))])
                   ELSE UNCHANGED << recording_length, pressed >>
                /\ recording_status' = (cmd # RECORD_CMD)
                /\ recorded' = (cmd = RECORD_CMD)
  /\ no_op
  /\ UNCHANGED << setupv, track >>

\* lines 601-602: one poll of the wait for release after a press; when the
\* session has ended record_track() returns and its locals are gone
RecordDebouncePoll(b) ==
  /\ pc = "rec_debounce"
  /\ check_buttons(b)
  /\ IF UserInputOf(b) # 0
     THEN UNCHANGED << pc, recv >>
     ELSE /\ elapsed' = 0
          /\ IF recording_status
             THEN /\ pc' = "rec_loop"
                  /\ UNCHANGED << track, recording_length, recording_status >>
             ELSE /\ pc' = "loop"
                  /\ track' = 0
                  /\ recording_length' = 0
                  /\ recording_status' = FALSE
  /\ no_op
  /\ UNCHANGED << EEPROM, setupv, seslog >>

\* ------------------------------------------------------------- power switch
\* power off and on again: the EEPROM keeps its bytes, the RAM starts over
PowerCycle ==
  /\ userInput' = 0
  /\ recordButtonCounter' = 0
  /\ incrementTrackButtonCounter' = 0
  /\ buttons' = {}
  /\ pc' = "setup"
  /\ ret' = "none"
  /\ time_pressed' = 0
  /\ track' = 0
  /\ recording_length' = 0
  /\ recording_status' = FALSE
  /\ elapsed' = 0
  /\ samples' = << >>
  /\ resets' = 0
  /\ fresh_boot' = FALSE
  /\ no_op
  /\ pressed' = << >>
  /\ recorded' = FALSE
  /\ since_event' = 0
  /\ UNCHANGED EEPROM

\* ------------------------------------------------- the firmware, power-on
\* the button sets the user is taken to offer in each phase; a recording
\* session of this specification is ended at once (SpecRecord has the
\* sessions that record events)
SetupButtons ==
  {{}, {"RECORD"}, {"PLAY"}, {"RECORD", "PLAY"}, {"RECORD", "YES"}}
ReleaseButtons == {{}, {"RECORD"}}
LoopButtons == {{}, {"RECORD"}, {"PLAY"}, {"TRACK"}, {"YES"}}
EndButtons == {{"RECORD"}, {"PLAY"}}

\* a held button drives its counter no further than m
HoldBound(b, m) ==
  /\ "RECORD" \in b => recordButtonCounter \in 0 .. m - 1
  /\ "TRACK" \in b => incrementTrackButtonCounter \in 0 .. m - 1

\* Play or Track is pressed MaxIgnored times at most between two events
IgnoredBound(b) ==
  UserInputOf(b) \in {PLAY_CMD, TRACK_CMD}
    => since_event < MaxIgnored * RecTickMs

Next ==
  \/ SetupFreshCheck
  \/ \E b \in ReleaseButtons : HoldBound(b, MaxPolls) /\ FactoryResetPoll(b)
  \/ \E b \in SetupButtons : HoldBound(b, MaxHold) /\ ManualSample(b)
  \/ SetupEnd
  \/ \E b \in LoopButtons : HoldBound(b, MaxHold) /\ LoopPoll(b)
  \/ \E b \in ReleaseButtons : HoldBound(b, MaxHold) /\ RecordReleasePoll(b)
  \/ \E b \in EndButtons :
       HoldBound(b, MaxHold) /\ IgnoredBound(b) /\ RecordIteration(b, 1)
  \/ \E b \in ReleaseButtons : HoldBound(b, MaxPolls) /\ RecordDebouncePoll(b)
  \/ PowerCycle

Spec == Init /\ [][Next]_vars

\* ------------------------------------------------- one recording session
\* the store a fresh chip has after setup(), with track t selected
SetupStore(t) ==
  [MarkInitialised(FactoryResetStore(FreshStore)) EXCEPT ![0] = t]

\* loop() has just called record_track() (line 275) on one of the tracks
InitRecord ==
  /\ \E t \in 1 .. 5 : EEPROM = SetupStore(t)
  /\ userInput = RECORD_CMD
  /\ recordButtonCounter = LongPress + 1
  /\ incrementTrackButtonCounter = 0
  /\ buttons = {"RECORD"}
  /\ pc = "rec_release"
  /\ ret = "none"
  /\ time_pressed = 0
  /\ track = 0
  /\ recording_length = 0
  /\ recording_status = FALSE
  /\ elapsed = 0
  /\ samples = << >>
  /\ resets = 0
  /\ fresh_boot = FALSE
  /\ last_op = "none"
  /\ played = << >>
  /\ sel_from = 0
  /\ sel_count = 0
  /\ pressed = << >>
  /\ recorded = FALSE
  /\ since_event = 0

RecordButtons ==
  {{"YES"}, {"NO"}, {"SNAKE"}, {"RECORD"}, {"PLAY"}, {"TRACK"}}
IterationRuns == {1, IdleLong}
\* the lines a wait for release (lines 542, 601) may find pressed
WaitButtons == {{}, {"RECORD"}, {"TRACK"}, {"YES"}}
PlayButtons == {{}, {"PLAY"}}

\* every press of the session so far was a Yes at the first poll after the
\* press before it
QuickYesOnly ==
  \A i \in 1 .. Len(pressed) :
    pressed[i] = [wait |-> 100 * EventDelay(RecTickMs), act |-> "yes"]

\* the first MaxEvents presses of a session are free; a performer who has
\* only pressed Yes without a pause goes on doing so, up to MaxLong presses
EventBound(b, n) ==
  UserInputOf(b) \in {YES_CMD, NO_CMD, SNAKE_CMD}
    => \/ Len(pressed) < MaxEvents
       \/ b = {"YES"} /\ n = 1 /\ Len(pressed) < MaxLong /\ QuickYesOnly

NextRecord ==
  \/ \E b \in WaitButtons : HoldBound(b, MaxHold) /\ RecordReleasePoll(b)
  \/ \E b \in RecordButtons, n \in IterationRuns :
       /\ HoldBound(b, MaxHold)
       /\ EventBound(b, n)
       /\ IgnoredBound(b)
       /\ RecordIteration(b, n)
  \/ \E b \in WaitButtons : HoldBound(b, MaxPolls) /\ RecordDebouncePoll(b)
  \/ \E b \in PlayButtons : LoopPoll(b)

SpecRecord == InitRecord /\ [][NextRecord]_vars

\* ---------------------------------------------- the routines on any store
\* a store of one byte value, with track t selected and the pairs of
\* prefix, then an End pair at pair number endAt, at the start of its region
RECURSIVE WritePairs(_, _, _, _)
WritePairs(e, start, pairs, i) ==
  IF i > Len(pairs) THEN e
  ELSE WritePairs(record_event(e, start, pairs[i][1], pairs[i][2], i - 1),
                  start, pairs, i + 1)

DrawnStore(fill, t, prefix, endAt) ==
  LET start == CHOOSE a \in StartMemLocations(t) : TRUE
      e0 == [a \in 0 .. EEPROM_length - 1 |->
               IF a = 0 THEN t ELSE IF a = 1023 THEN 0 ELSE fill]
      e1 == IF endAt < 0 THEN e0 ELSE record_event(e0, start, 0, END, endAt)
  IN WritePairs(e1, start, prefix, 1)

Fills == {255, YES}
PairChoices == {<< 7, YES >>, << 0, NO >>, << 3, SNAKE >>, << 0, END >>,
                << 5, 0 >>}
EndChoices == {-1, 49, 50}

\* the pairs before the last pair of a prefix
LeadChoices == {<< 7, YES >>, << 0, END >>, << 5, 0 >>}

RECURSIVE Leads(_)
Leads(n) ==
  IF n = 0 THEN {<< >>}
  ELSE Leads(n - 1) \cup
         {Append(p, c) : p \in {q \in Leads(n - 1) : Len(q) = n - 1},
                         c \in LeadChoices}

\* the prefixes of at most n pairs: any pair after at most n - 1 lead pairs
Prefixes(n) ==
  {<< >>} \cup {Append(p, c) : p \in Leads(n - 1), c \in PairChoices}

InitStore ==
  /\ \E fill \in Fills, t \in 1 .. 5, prefix \in Prefixes(MaxPairs),
        endAt \in EndChoices :
       EEPROM = DrawnStore(fill, t, prefix, endAt)
  /\ userInput = 0
  /\ recordButtonCounter = 0
  /\ incrementTrackButtonCounter = 0
  /\ buttons = {}
  /\ pc = "loop"
  /\ ret = "none"
  /\ time_pressed = 0
  /\ track = 0
  /\ recording_length = 0
  /\ recording_status = FALSE
  /\ elapsed = 0
  /\ samples = << >>
  /\ resets = 0
  /\ fresh_boot = FALSE
  /\ last_op = "none"
  /\ played = << >>
  /\ sel_from = 0
  /\ sel_count = 0
  /\ pressed = << >>
  /\ recorded = FALSE
  /\ since_event = 0

\* play_track() on the store
PlayOp ==
  /\ play_track
  /\ resets' = 0
  /\ UNCHANGED << pc, globals, ret, time_pressed, samples, fresh_boot, recv >>

\* increment_track() on the store
SelectOp ==
  /\ sel_count < MaxSelects
  /\ increment_track
  /\ resets' = 0
  /\ UNCHANGED << pc, globals, ret, time_pressed, samples, fresh_boot, recv >>

\* the writes of factory_reset() on the store
ResetOp ==
  /\ resets < MaxResets
  /\ factory_reset
  /\ resets' = resets + 1
  /\ UNCHANGED << pc, globals, ret, time_pressed, samples, fresh_boot, recv >>

NextStore == PlayOp \/ SelectOp \/ ResetOp

SpecStore == InitStore /\ [][NextStore]_vars

\* ------------------------------------------------- check_buttons() alone
\* one call of check_buttons() with any of the 64 states of the six lines
Poll(b) ==
  /\ check_buttons(b)
  /\ UNCHANGED << EEPROM, pc, setupv, recv, oplog, seslog >>

\* a wait for release (lines 454, 542, 601) polls without a delay: a button
\* held alone for a second or so is polled tens of thousands of times
LongHolds == {{"RECORD"}, {"TRACK"}}
LongHeld == IntMod \div 2 - 3

\* one more poll of a button that has been held alone for that long
StillHeld(b) ==
  /\ buttons = b
  /\ "RECORD" \in b => recordButtonCounter >= LongHeld
  /\ "TRACK" \in b => incrementTrackButtonCounter >= LongHeld
  /\ Poll(b)

NextButtons ==
  \/ \E b \in SUBSET Buttons : HoldBound(b, MaxPolls) /\ Poll(b)
  \/ \E b \in LongHolds : StillHeld(b)

\* the caller is about to poll: no button has been pressed since power-on,
\* or one button has been held alone through LongHeld polls
InitButtons ==
  /\ EEPROM = SetupStore(1)
  /\ \E b \in {{}} \cup LongHolds :
       /\ buttons = b
       /\ userInput = UserInputOf(b)
       /\ recordButtonCounter = (IF "RECORD" \in b THEN LongHeld ELSE 0)
       /\ incrementTrackButtonCounter = (IF "TRACK" \in b THEN LongHeld ELSE 0)
  /\ pc = "loop"
  /\ ret = "none"
  /\ time_pressed = 0
  /\ track = 0
  /\ recording_length = 0
  /\ recording_status = FALSE
  /\ elapsed = 0
  /\ samples = << >>
  /\ resets = 0
  /\ fresh_boot = FALSE
  /\ last_op = "none"
  /\ played = << >>
  /\ sel_from = 0
  /\ sel_count = 0
  /\ pressed = << >>
  /\ recorded = FALSE
  /\ since_event = 0

SpecButtons == InitButtons /\ [][NextButtons]_vars

\* ------------------------------------------------------------------ claims
\* the storage layout: the first address of the region of slot s
RegionStart(s) == IF s = 1 THEN 1 ELSE (s - 1) * 100

\* the 100 addresses play_track and record_event use for track t
Region(t) ==
  LET start == CHOOSE a \in StartMemLocations(t) : TRUE
  IN start .. LastPos(start)

\* the pairs of the region of the current track
CurStart == RegionStart(EEPROM[0])
PairDelay(k) == EEPROM[CurStart + 2 * k]
PairType(k) == EEPROM[CurStart + 2 * k + 1]
EndPairs == {k \in 0 .. 49 : PairType(k) = END}
FirstEnd == CHOOSE k \in EndPairs : \A j \in EndPairs : k <= j

\* the actuator a type byte stands for
ActionOfType(ty) ==
  CASE ty = 1 -> "yes" [] ty = 2 -> "no" [] ty = 3 -> "snake"
    [] OTHER -> "none"

\* C1: when the region of the current track (1..5) has an End type byte in
\* its first 50 pairs, play_track reads exactly the pairs up to the first
\* End, in storage order, runs the action of each pair before that End with
\* the pair's delay, runs no action for the End pair and reads nothing after
C1_PlayStopsAtFirstEnd ==
  (last_op = "play" /\ EEPROM[0] \in 1 .. 5 /\ EndPairs # {}) =>
    /\ Len(played) = FirstEnd + 1
    /\ \A i \in 1 .. Len(played) :
         /\ played[i].pos = CurStart + 2 * (i - 1)
         /\ played[i].type = PairType(i - 1)
         /\ played[i].wait = 100 * PairDelay(i - 1)
         /\ played[i].act =
              IF i = FirstEnd + 1 THEN "none" ELSE ActionOfType(PairType(i - 1))

\* C1 witness: a track was played whose region holds actions before its
\* first End and stale action pairs after it
C1_Witness ==
  /\ last_op = "play"
  /\ EEPROM[0] \in 1 .. 5
  /\ EndPairs # {}
  /\ FirstEnd >= 1
  /\ played[1].act # "none"
  /\ \E k \in 0 .. 49 : k > FirstEnd /\ PairType(k) \in {YES, NO, SNAKE}

\* C2: the 100-byte region of the current track shares no address with the
\* region of any other slot 1..5
C2_RegionsDisjoint ==
  EEPROM[0] \in 1 .. 5 =>
    \A s \in 1 .. 5 : s # EEPROM[0] => Region(s) \cap Region(EEPROM[0]) = {}

\* C3: increment_track is a bijection on 1..5, and after k calls in a row
\* from a track in 1..5 the current-track cell holds the k-th successor in
\* the cycle 1 2 3 4 5 1 (so one call from 5 stores 1, five calls restore)
C3_IncrementCycles ==
  /\ {NextTrack(t) : t \in 1 .. 5} = 1 .. 5
  /\ (sel_count >= 1 /\ sel_from \in 1 .. 5) =>
       /\ EEPROM[0] = ((sel_from - 1 + sel_count) % 5) + 1
       /\ sel_count = 5 => EEPROM[0] = sel_from

\* C3 witness: five calls in a row from track 5 have been made
C3_Witness == sel_count = 5 /\ sel_from = 5 /\ EEPROM[0] = 5

\* the actions of a play_track log, with the wait before each
RECURSIVE ActionsOf(_)
ActionsOf(log) ==
  IF log = << >> THEN << >>
  ELSE LET rest == ActionsOf(Tail(log))
       IN IF Head(log).act = "none" THEN rest
          ELSE << [wait |-> Head(log).wait, act |-> Head(log).act] >> \o rest

\* C4: a play_track right after a recording session of the current track
\* runs the actions that were pressed, in order, each after the recorded wait
C4_RoundTrip ==
  (last_op = "play" /\ recorded) => ActionsOf(played) = pressed

\* C5 as amended: when setup() ends, a boot that read 255 from the sentinel
\* and did not find Record held at its first startup sample has run
\* factory_reset once and left the sentinel other than 255; a boot that read
\* another value and did not find Record held has run no factory_reset
C5_FreshBootResetsOnce ==
  (pc = "setup_end" /\ "RECORD" \notin samples[1]) =>
    /\ fresh_boot => (resets = 1 /\ EEPROM[1023] # 255)
    /\ ~fresh_boot => resets = 0

\* C5 witness: a later boot, on an initialised chip and with Record not
\* held, ends setup() without a factory reset
C5_Witness ==
  /\ pc = "setup_end"
  /\ ~fresh_boot
  /\ "RECORD" \notin samples[1]
  /\ EEPROM[1023] = 0
  /\ EEPROM[0] = 1
  /\ resets = 0

\* C5 as stated: every boot that read 255 from the sentinel has run
\* factory_reset exactly once when setup() ends
C5_AsStated ==
  (pc = "setup_end" /\ fresh_boot) => (resets = 1 /\ EEPROM[1023] # 255)

\* C6: record_track starts only after Record was held for more than 290
\* polls of loop(), and a hold of 310 polls has started it
C6_ThreeSecondHold ==
  /\ pc = "rec_release" => recordButtonCounter > 290
  /\ pc = "loop" => recordButtonCounter < 310

\* addresses 0..100: the current-track cell and the region of slot 1
CellAndSlot1(e) == [a \in 0 .. 100 |-> e[a]]

\* C7: a factory_reset that follows a factory_reset leaves the
\* current-track cell and the region of slot 1 as the first one left them
C7_ResetIdempotent ==
  [][(resets >= 1 /\ resets' = resets + 1)
       => CellAndSlot1(EEPROM') = CellAndSlot1(EEPROM)]_vars

\* C7 witness: factory_reset has run twice in a row
C7_Witness == resets = 2 /\ last_op = "reset"

\* the buttons by priority, and the command of each
Priority == << "PLAY", "RECORD", "TRACK", "YES", "NO", "SNAKE" >>
CommandOf == << PLAY_CMD, RECORD_CMD, TRACK_CMD, YES_CMD, NO_CMD, SNAKE_CMD >>
Rank(b) == CHOOSE i \in 1 .. 6 :
             Priority[i] \in b /\ \A j \in 1 .. i - 1 : Priority[j] \notin b

\* C8: check_buttons reports no command when every line is released and
\* otherwise the command of the pressed button that comes first in
\* Play, Record, SelectTrack, Yes, No, Snake
C8_HighestPriority ==
  /\ buttons = {} => userInput = 0
  /\ buttons # {} => userInput = CommandOf[Rank(buttons)]

\* C8 witness: all six lines were sampled pressed and Play was reported
C8_Witness == buttons = Buttons /\ userInput = PLAY_CMD

\* C9: when a Record press has ended a session after n recorded events, the
\* pair at byte offset 2n of the region is (0, End)
C9_EndDelayZero ==
  (pc = "rec_debounce" /\ recorded /\ track \in 1 .. 5) =>
    /\ EEPROM[RegionStart(track) + 2 * recording_length] = 0
    /\ EEPROM[RegionStart(track) + 2 * recording_length + 1] = END

\* the factory_reset of the manual path has run in this boot
ManualResetDone ==
  /\ pc \in {"fr_release", "manual", "setup_end"}
  /\ resets > (IF fresh_boot THEN 1 ELSE 0)

\* C10 as amended: the manual path runs factory_reset only when each of
\* its three samples found Record pressed and Play released
C10_ManualResetNeedsRecord ==
  ManualResetDone =>
    /\ Len(samples) = 3
    /\ \A i \in 1 .. 3 : "RECORD" \in samples[i] /\ "PLAY" \notin samples[i]

\* C10 witness: the manual path has run factory_reset
C10_Witness == ManualResetDone /\ ret = "manual"

\* C10 as stated: the manual path runs factory_reset only when each of its
\* three samples found Record pressed and no other button pressed
C10_AsStated ==
  ManualResetDone =>
    /\ Len(samples) = 3
    /\ \A i \in 1 .. 3 : samples[i] = {"RECORD"}

\* the type bytes the switch of play_track knows
KnownTypes == {YES, NO, SNAKE, END}

\* C11: a pair play_track reads whose type byte is none of Yes, No, Snake,
\* End runs no actuator, its delay is waited, and unless it is the 50th pair
\* of the region the next pair is read
C11_InvalidKindIsNoOp ==
  (last_op = "play" /\ EEPROM[0] \in 1 .. 5) =>
    \A i \in 1 .. Len(played) :
      played[i].type \notin KnownTypes =>
        /\ played[i].act = "none"
        /\ played[i].wait = 100 * EEPROM[played[i].pos]
        /\ played[i].pos + 2 <= CurStart + 99 =>
             /\ i < Len(played)
             /\ played[i + 1].pos = played[i].pos + 2

\* C11 witness: a play read a pair of unknown type with a delay to wait and
\* then ran the action of the pair after it
C11_Witness ==
  /\ last_op = "play"
  /\ EEPROM[0] \in 1 .. 5
  /\ Len(played) >= 2
  /\ played[1].type \notin KnownTypes
  /\ played[1].wait > 0
  /\ played[2].act # "none"

\* C12: on any store and any current track 1..5 play_track reads at most 50
\* pairs, runs at most 50 actions, and every byte it reads is in the 100
\* addresses from the region start on
C12_PlayBounded ==
  (last_op = "play" /\ EEPROM[0] \in 1 .. 5) =>
    /\ Len(played) <= 50
    /\ Len(ActionsOf(played)) <= 50
    /\ \A i \in 1 .. Len(played) :
         {played[i].pos, played[i].pos + 1} \subseteq CurStart .. CurStart + 99

\* C12 witness: a play of a region with no End in its 50 pairs read all 50
\* and ran 50 actions
C12_Witness ==
  /\ last_op = "play"
  /\ EEPROM[0] \in 1 .. 5
  /\ EndPairs = {}
  /\ Len(played) = 50
  /\ Len(ActionsOf(played)) = 50

\* what a poll does to a hold counter c of the button of line l and command
\* cmd: zero when the line is released, one more when the poll resolves to
\* the command, the same when the button is held and another button wins
HoldCounterStep(c, l, cmd) ==
  IF l \notin buttons' THEN 0
  ELSE IF userInput' = cmd THEN c + 1
  ELSE c

\* C13: every poll leaves each of the two hold counters as HoldCounterStep
\* says, whatever the other lines are and however long the hold has lasted
C13_HoldCounters ==
  [][/\ recordButtonCounter' =
          HoldCounterStep(recordButtonCounter, "RECORD", RECORD_CMD)
     /\ incrementTrackButtonCounter' =
          HoldCounterStep(incrementTrackButtonCounter, "TRACK", TRACK_CMD)]_vars

\* the delay byte the recording step has stored for the event it recorded
StoredDelay ==
  EEPROM'[(RegionStart(track) + 2 * recording_length) % EEPROM_length]

\* C14: a poll of the recording loop that resolves to Play or SelectTrack
\* leaves the store and the event count as they are, and the delay stored
\* with the next event is the time of the recording loop since the event
\* before it (or the start of the session), ignored presses included
C14_IgnoredPressKeepsState ==
  [][/\ (pc = "rec_loop" /\ userInput' \in {PLAY_CMD, TRACK_CMD}) =>
          (EEPROM' = EEPROM /\ recording_length' = recording_length)
     /\ (pc = "rec_loop" /\ pressed' # pressed /\ track \in 1 .. 5) =>
          StoredDelay = EventDelay(since_event + elapsed' - elapsed)]_vars

\* tenths of a second in ms milliseconds, 255 at most
ClampedTenths(ms) == IF ms \div 100 > 255 THEN 255 ELSE ms \div 100

\* C15: a poll of the recording loop that resolves to Yes, No or Snake
\* records one event, and the delay byte stored with it is the time since
\* last_press_time in tenths of a second, 255 when that is more than 25.5 s
C15_DelayClamped ==
  [][(pc = "rec_loop" /\ userInput' \in {YES_CMD, NO_CMD, SNAKE_CMD}
        /\ track \in 1 .. 5) =>
       /\ Len(pressed') = Len(pressed) + 1
       /\ recording_length' = (recording_length + 1) % ByteMod
       /\ StoredDelay = ClampedTenths(elapsed')
       /\ EEPROM'[(RegionStart(track) + 2 * recording_length + 1)
                    % EEPROM_length] \in {YES, NO, SNAKE}]_vars

\* C15 witness: an event pressed more than 25.5 s after the session started
\* has been recorded with the delay byte 255
C15_Witness ==
  /\ pc = "rec_debounce"
  /\ userInput \in {YES_CMD, NO_CMD, SNAKE_CMD}
  /\ track \in 1 .. 5
  /\ elapsed > 25500
  /\ recording_length = 1
  /\ EEPROM[RegionStart(track)] = 255

\* C16: when a session has been ended by a Record press, the region of the
\* recorded track has an End type byte in one of its 50 pairs
C16_EndWithinRegion ==
  (recorded /\ EEPROM[0] \in 1 .. 5) => EndPairs # {}

\* the program is inside record_track()
InSession == pc \in {"rec_release", "rec_loop", "rec_debounce"}

\* C17: no step of a recording session changes address 0 or address 1023,
\* however many events it records; a play_track changes no byte; and a
\* step that changes address 0 is an increment_track or a factory_reset
C17_TrackCellFrame ==
  [][/\ InSession => (EEPROM'[0] = EEPROM[0] /\ EEPROM'[1023] = EEPROM[1023])
     /\ last_op' = "play" => EEPROM' = EEPROM
     /\ EEPROM'[0] # EEPROM[0] => last_op' \in {"select", "reset"}]_vars

\* C17 witness: a session has recorded more events than the byte
\* recording_length counts, and the count has wrapped
C17_Witness ==
  /\ pc = "rec_debounce"
  /\ Len(pressed) = ByteMod
  /\ recording_length = 0
  /\ EEPROM[0] \in 1 .. 5

\* C18: once setup() has returned, address 0 holds a track 1..5
C18_TrackInRange ==
  (pc = "loop" \/ InSession) => EEPROM[0] \in 1 .. 5

\* C18 witness: in loop(), an increment_track has taken the track from 5
\* back to 1
C18_Witness ==
  /\ pc = "loop"
  /\ last_op = "select"
  /\ sel_from = 5
  /\ sel_count = 1
  /\ EEPROM[0] = 1

\* the store e with the bytes of f at the addresses a..20
RECURSIVE WithLowBytesOf(_, _, _)
WithLowBytesOf(e, f, a) ==
  IF a > Len(example_track_1) THEN e
  ELSE WithLowBytesOf([e EXCEPT ![a] = f[a]], f, a + 1)

C20_OneAdvancePerHold ==
  (pc = "loop" /\ "TRACK" \in buttons) => sel_count <= 1

\* C21: record_track() writes nothing while it waits at line 542, leaves
\* that wait only at a poll that finds all six lines released, writes only
\* from its recording loop, ends the session only at the first poll of a new
\* hold of Record, and returns with both hold counters at 0
C21_StartingHoldNotRecorded ==
  [][/\ pc = "rec_release" =>
          /\ EEPROM' = EEPROM
          /\ pc' = "rec_loop" =>
               (buttons' = {} /\ userInput' = 0 /\ recordButtonCounter' = 0)
     /\ (InSession /\ EEPROM' # EEPROM) => pc = "rec_loop"
     /\ (pc = "rec_loop" /\ recorded') => recordButtonCounter' = 1
     /\ (InSession /\ pc' = "loop") =>
          /\ buttons' = {}
          /\ recordButtonCounter' = 0
          /\ incrementTrackButtonCounter' = 0]_vars

\* C21 witness: a session that was ended by its first press has returned
\* to loop(): the End pair is at offset 0 and both counters are 0
C21_Witness ==
  /\ pc = "loop"
  /\ recorded
  /\ pressed = << >>
  /\ EEPROM[0] \in 1 .. 5
  /\ EEPROM[CurStart + 1] = END
  /\ recordButtonCounter = 0
  /\ incrementTrackButtonCounter = 0

====
